---- MODULE Spec2Model ----
(***************************************************************************)
(* Recipe import/export (src/recepies/recepie/views.py): the schema        *)
(* validator, the XML codec and the file store behind save_data,           *)
(* upload_file, index and view_file.                                       *)
(*                                                                         *)
(* Python values are records tagged by their type in field t.  Text is a   *)
(* sequence of one-character strings.  A float is the decimal num / 10^k   *)
(* in lowest terms (k minimal), or NaN.                                    *)
(***************************************************************************)
EXTENDS Integers, Sequences, FiniteSets, TLC

VARIABLES
  pc,      \* position of the call under study / of the request loop
  data,    \* the dict object the caller passes to _validate_recipe_dict
  orig,    \* the value that object had when the call was made
  ret,     \* the outcome of the last call of _validate_recipe_dict
  dec,     \* the outcome of the last call of _from_json / _from_xml
  form,    \* the RecipeForm of the request: is_valid() and cleaned_data
  raw,     \* the bytes in hand: read from a file, or encoded for one
  store,   \* the data directories: file name -> content
  used,    \* identifiers uuid4 has produced so far
  accepted, \* the files reported as saved or as uploaded and valid, as written
  resp     \* the last HTTP response

vars == <<pc, data, orig, ret, dec, form, raw, store, used, accepted, resp>>

(***************************** bounds **************************************)
MaxItems == 2      \* longest ingredients list of a generated input
MaxSteps == 2      \* longest steps list of a generated input

(*************************** Python values *********************************)
None == [t |-> "none"]
PyStr(s) == [t |-> "str", s |-> s]
PyInt(n) == [t |-> "int", n |-> n]
NaN == [t |-> "nan"]
PyList(items) == [t |-> "list", items |-> items]

RECURSIVE Pow10(_)
Pow10(k) == IF k = 0 THEN 1 ELSE 10 * Pow10(k - 1)

RECURSIVE PyFloat(_, _)
\* the float num / 10^k, in lowest terms
PyFloat(num, k) ==
  IF k > 0 /\ num % 10 = 0 THEN PyFloat(num \div 10, k - 1)
  ELSE [t |-> "float", num |-> num, k |-> k]

RecipeDict(title, servings, ingredients, steps) ==
  [t |-> "dict", title |-> title, servings |-> servings,
   ingredients |-> ingredients, steps |-> steps]

IngDict(name, amount, unit) ==
  [t |-> "dict", name |-> name, amount |-> amount, unit |-> unit]

IsStr(v) == v.t = "str"
IsNumber(v) == v.t \in {"int", "float", "nan"}     \* isinstance(v, (int, float))
IsRecipeDict(v) == v.t = "dict" /\ "title" \in DOMAIN v
IsIngDict(v) == v.t = "dict" /\ "name" \in DOMAIN v

(****************************** text ***************************************)
DigitChars == <<"0", "1", "2", "3", "4", "5", "6", "7", "8", "9">>
IsDigit(c) == \E i \in 1..10 : DigitChars[i] = c
DigitVal(c) == (CHOOSE i \in 1..10 : DigitChars[i] = c) - 1

Repeat(c, n) == [i \in 1..n |-> c]

RECURSIVE LStrip(_)
LStrip(s) == IF s # <<>> /\ Head(s) = " " THEN LStrip(Tail(s)) ELSE s

RECURSIVE RStrip(_)
RStrip(s) ==
  IF s # <<>> /\ s[Len(s)] = " " THEN RStrip(SubSeq(s, 1, Len(s) - 1)) ELSE s

\* str.strip()
Strip(s) == RStrip(LStrip(s))

\* str.replace(a, b) for one-character a and b
Replace(s, a, b) == [i \in 1..Len(s) |-> IF s[i] = a THEN b ELSE s[i]]

RECURSIVE NatStr(_)
NatStr(n) ==
  IF n < 10 THEN <<DigitChars[n + 1]>>
  ELSE NatStr(n \div 10) \o <<DigitChars[(n % 10) + 1]>>

\* str(int)
IntStr(n) == IF n < 0 THEN <<"-">> \o NatStr(-n) ELSE NatStr(n)

RECURSIVE DigitsVal(_)
DigitsVal(s) ==
  IF s = <<>> THEN 0
  ELSE 10 * DigitsVal(SubSeq(s, 1, Len(s) - 1)) + DigitVal(s[Len(s)])

AllDigits(s) == \A i \in 1..Len(s) : IsDigit(s[i])

\* str(float): repr of a short decimal
FloatStr(v) ==
  IF v.t = "nan" THEN <<"n", "a", "n">>
  ELSE LET a == IF v.num < 0 THEN -v.num ELSE v.num
           scale == Pow10(v.k)
           digits == NatStr(a)
           padded == IF Len(digits) > v.k THEN digits
                     ELSE Repeat("0", v.k + 1 - Len(digits)) \o digits
           n == Len(padded)
       IN (IF v.num < 0 THEN <<"-">> ELSE <<>>)
            \o SubSeq(padded, 1, n - v.k) \o <<".">>
            \o (IF v.k = 0 THEN <<"0">> ELSE SubSeq(padded, n - v.k + 1, n))

\* str(v) for the values _to_xml formats
PyStrOf(v) ==
  CASE v.t = "int" -> IntStr(v.n)
    [] v.t \in {"float", "nan"} -> FloatStr(v)
    [] v.t = "str" -> v.s
    [] OTHER -> <<"N", "o", "n", "e">>

\* the character U+D800, a lone surrogate: text may hold it (json.loads reads
\* the escape \ud800), UTF-8 has no encoding for it
Surrogate == "U+D800"

\* str.encode("utf-8") succeeds
Utf8Encodable(s) == \A i \in 1..Len(s) : s[i] # Surrogate

Ok(v) == [ok |-> TRUE, val |-> v]
Fail(e) == [ok |-> FALSE, err |-> e]

\* float(text): surrounding blanks are ignored; an optional sign, then "nan"
\* or digits with at most one decimal point and at least one digit
ParseFloat(s) ==
  LET b == Strip(s)
      neg == b # <<>> /\ Head(b) = "-"
      u == IF neg THEN Tail(b) ELSE b
      dots == {i \in 1..Len(u) : u[i] = "."}
      dot == IF dots = {} THEN Len(u) + 1 ELSE CHOOSE i \in dots : TRUE
      ip == SubSeq(u, 1, dot - 1)
      fp == SubSeq(u, dot + 1, Len(u))
      mag == DigitsVal(ip \o fp)
  IN IF u = <<"n", "a", "n">> THEN Ok(NaN)
     ELSE IF Cardinality(dots) > 1 \/ ~AllDigits(ip) \/ ~AllDigits(fp)
             \/ Len(ip) + Len(fp) = 0
          THEN Fail("ValueError")
          ELSE Ok(PyFloat(IF neg THEN -mag ELSE mag, Len(fp)))

\* float(v)
ToFloat(v) ==
  CASE v.t = "int" -> Ok(PyFloat(v.n, 0))
    [] v.t \in {"float", "nan"} -> Ok(v)
    [] v.t = "str" -> ParseFloat(v.s)
    [] OTHER -> Fail("TypeError")

\* int(v) for a number: truncation toward zero; int(nan) raises
ToInt(v) ==
  CASE v.t = "int" -> Ok(v.n)
    [] v.t = "float" ->
         Ok(IF v.num >= 0 THEN v.num \div Pow10(v.k)
            ELSE -((-v.num) \div Pow10(v.k)))
    [] OTHER -> Fail("ValueError")

\* x <= 0 on floats: every comparison with NaN is False
FloatLeqZero(f) == f.t = "float" /\ f.num <= 0
FloatGtZero(f) == f.t = "float" /\ f.num > 0

\* Python's == on numbers (2 == 2.0), on text, and element-wise on lists and dicts
RECURSIVE PyEq(_, _)
PyEq(a, b) ==
  CASE IsNumber(a) /\ IsNumber(b) ->
         a.t # "nan" /\ b.t # "nan" /\ ToFloat(a).val = ToFloat(b).val
    [] a.t = "list" /\ b.t = "list" ->
         /\ Len(a.items) = Len(b.items)
         /\ \A i \in 1..Len(a.items) : PyEq(a.items[i], b.items[i])
    [] IsRecipeDict(a) /\ IsRecipeDict(b) ->
         /\ PyEq(a.title, b.title) /\ PyEq(a.servings, b.servings)
         /\ PyEq(a.ingredients, b.ingredients) /\ PyEq(a.steps, b.steps)
    [] IsIngDict(a) /\ IsIngDict(b) ->
         PyEq(a.name, b.name) /\ PyEq(a.amount, b.amount) /\ PyEq(a.unit, b.unit)
    [] OTHER -> a = b

(**************************** the validator ********************************)
MaxTitleLen == 100

\* the check of one element of ingredients: "" when it passes
IngError(ing) ==
  LET amount_val == ToFloat(ing.amount) IN
  IF ~IsIngDict(ing) THEN "not_object"
  ELSE IF ~IsStr(ing.name) \/ ing.name.s = <<>> THEN "name"
  ELSE IF ~amount_val.ok THEN "amount_not_number"
  ELSE IF FloatLeqZero(amount_val.val) THEN "amount_not_positive"
  ELSE IF ~IsStr(ing.unit) \/ ing.unit.s = <<>> THEN "unit"
  ELSE ""

\* all(isinstance(s, str) and s.strip() for s in steps)
StepsOk(steps) ==
  /\ steps.t = "list"
  /\ \A i \in 1..Len(steps.items) :
       IsStr(steps.items[i]) /\ Strip(steps.items[i].s) # <<>>

\* _validate_recipe_dict with the servings normalisation moved up, next to the
\* servings check, so that a later rejection leaves the input changed
_validate_recipe_dict_early_norm(d) ==
  LET n == IF IsRecipeDict(d) /\ IsNumber(d.servings) /\ ToInt(d.servings).ok
                /\ ToInt(d.servings).val >= 1
           THEN [d EXCEPT !.servings = PyInt(ToInt(d.servings).val)] ELSE d
      Raise(e) == [ok |-> FALSE, err |-> e, obj |-> n] IN
  IF ~IsRecipeDict(d) THEN Raise("not_object")
  ELSE IF ~IsStr(d.title) \/ ~(1 <= Len(d.title.s) /\ Len(d.title.s) <= MaxTitleLen)
       THEN [ok |-> FALSE, err |-> "title", obj |-> d]
  ELSE IF ~IsNumber(d.servings) \/ ~ToInt(d.servings).ok \/ ToInt(d.servings).val < 1
       THEN Raise("servings")
  ELSE IF d.ingredients.t # "list" \/ d.ingredients.items = <<>>
       THEN Raise("ingredients")
  ELSE IF \E i \in 1..Len(d.ingredients.items) : IngError(d.ingredients.items[i]) # ""
       THEN Raise("ingredient")
  ELSE IF ~StepsOk(d.steps) THEN Raise("steps")
  ELSE [ok |-> TRUE, err |-> "", obj |-> n]

\* the outcome of _validate_recipe_dict(d): ok, the error raised, and the
\* value of the caller's object d after the call
_validate_recipe_dict(d) ==
  LET Raise(e) == [ok |-> FALSE, err |-> e, obj |-> d]
      servings == ToInt(d.servings)
      errs == [i \in 1..Len(d.ingredients.items) |-> IngError(d.ingredients.items[i])]
      bad == {i \in DOMAIN errs : errs[i] # ""}
  IN
  IF ~IsRecipeDict(d) THEN Raise("not_object")
  ELSE IF ~IsStr(d.title) \/ ~(1 <= Len(d.title.s) /\ Len(d.title.s) <= MaxTitleLen)
       THEN Raise("title")
  ELSE IF ~IsNumber(d.servings) THEN Raise("servings")
  ELSE IF ~servings.ok THEN Raise("servings_nan")
  ELSE IF servings.val < 1 THEN Raise("servings")
  ELSE IF d.ingredients.t # "list" \/ d.ingredients.items = <<>>
       THEN Raise("ingredients")
  ELSE IF bad # {}
       THEN Raise(<<"ingredient", CHOOSE j \in bad : \A m \in bad : j <= m>>)
  ELSE IF ~StepsOk(d.steps) THEN Raise("steps")
  ELSE [ok |-> TRUE, err |-> "", obj |-> [d EXCEPT !.servings = PyInt(servings.val)]]

(****************************** XML codec **********************************)
\* an element: tag, attributes (a record of texts), text (None or str), children
El(tag, attrib, text, children) ==
  [tag |-> tag, attrib |-> attrib, text |-> text, children |-> children]

NoAttrib == <<>>

\* SubElement(parent, tag) with .text = text
Leaf(tag, text) == El(tag, NoAttrib, text, <<>>)

\* attrib.get(key)
AttribGet(el, key) ==
  IF key \in DOMAIN el.attrib THEN PyStr(el.attrib[key]) ELSE None

\* x or ""
OrEmpty(v) == IF v.t = "str" THEN v.s ELSE <<>>

\* Element.find(tag): the first child with that tag, or none
Find(el, tag) ==
  LET hits == {i \in 1..Len(el.children) : el.children[i].tag = tag}
  IN IF hits = {} THEN [found |-> FALSE]
     ELSE [found |-> TRUE,
           el |-> el.children[CHOOSE i \in hits : \A j \in hits : i <= j]]

\* Element.findtext(tag): None when there is no such child, "" for an empty one
FindText(el, tag) ==
  LET hit == Find(el, tag) IN IF hit.found THEN PyStr(OrEmpty(hit.el.text)) ELSE None

\* what the serialised form keeps of an element: an empty text is written as
\* no text at all (<step />), and read back as None
RECURSIVE Written(_)
Written(el) ==
  El(el.tag, el.attrib,
     IF el.text = PyStr(<<>>) THEN None ELSE el.text,
     [i \in 1..Len(el.children) |-> Written(el.children[i])])

\* ElementTree.tostring(r, encoding="utf-8", xml_declaration=True)
tostring(r) == [kind |-> "xml", root |-> Written(r)]

\* ElementTree.fromstring(raw): the tree, or ParseError on anything else
fromstring(b) ==
  IF b.kind = "xml" THEN Ok(b.root) ELSE Fail("ParseError")

_to_xml(obj) ==
  LET item(ing) == El("item", [name |-> ing.name.s, unit |-> ing.unit.s],
                      PyStr(PyStrOf(ing.amount)), <<>>)
      ing == El("ingredients", NoAttrib, None,
                [i \in 1..Len(obj.ingredients.items) |-> item(obj.ingredients.items[i])])
      steps == El("steps", NoAttrib, None,
                  [i \in 1..Len(obj.steps.items) |-> Leaf("step", obj.steps.items[i])])
  IN tostring(El("recipe", NoAttrib, None,
                 << Leaf("title", obj.title),
                    Leaf("servings", PyStr(PyStrOf(obj.servings))),
                    ing, steps >>))

\* int(float(servings_text))
ParseServings(text) ==
  LET f == ParseFloat(text) IN IF f.ok THEN ToInt(f.val) ELSE Fail("ValueError")

\* float(amount_text.replace(",", "."))
ParseAmount(text) == ParseFloat(Replace(text, ",", "."))

ItemAmountText(item) == Strip(OrEmpty(item.text))

\* (item.attrib.get(key) or "").strip()
ItemAttr(item, key) == PyStr(Strip(OrEmpty(AttribGet(item, key))))

DecodeItem(item) ==
  IngDict(ItemAttr(item, "name"), ParseAmount(ItemAmountText(item)).val,
          ItemAttr(item, "unit"))

IsItem(c) == c.tag = "item"
KeptStep(c) == c.tag = "step" /\ Strip(OrEmpty(c.text)) # <<>>

\* _from_xml with a decimal comma not accepted in an amount
_from_xml_no_comma(b) ==
  IF ~fromstring(b).ok THEN Fail("ParseError")
  ELSE LET root == fromstring(b).val
           items == SelectSeq(IF Find(root, "ingredients").found
                              THEN Find(root, "ingredients").el.children ELSE <<>>, IsItem)
           kept == SelectSeq(IF Find(root, "steps").found
                             THEN Find(root, "steps").el.children ELSE <<>>, KeptStep)
       IN IF root.tag # "recipe" THEN Fail("root")
          ELSE IF ~ParseServings(Strip(OrEmpty(FindText(root, "servings")))).ok
               THEN Fail("servings")
          ELSE IF ~Find(root, "ingredients").found THEN Fail("ingredients")
          ELSE IF \E i \in 1..Len(items) : ~ParseFloat(ItemAmountText(items[i])).ok
               THEN Fail("amount")
          ELSE IF ~Find(root, "steps").found THEN Fail("steps")
          ELSE Ok(RecipeDict(
                 PyStr(Strip(OrEmpty(FindText(root, "title")))),
                 PyInt(ParseServings(Strip(OrEmpty(FindText(root, "servings")))).val),
                 PyList([i \in 1..Len(items) |->
                           IngDict(PyStr(Strip(OrEmpty(AttribGet(items[i], "name")))),
                                   ParseFloat(ItemAmountText(items[i])).val,
                                   PyStr(Strip(OrEmpty(AttribGet(items[i], "unit")))))]),
                 PyList([i \in 1..Len(kept) |-> PyStr(Strip(OrEmpty(kept[i].text)))])))

\* _from_xml that rejects a child of <ingredients> or <steps> it does not know
_from_xml_strict(b) ==
  IF ~fromstring(b).ok THEN Fail("ParseError")
  ELSE LET root == fromstring(b).val
           ichildren == IF Find(root, "ingredients").found
                        THEN Find(root, "ingredients").el.children ELSE <<>>
           schildren == IF Find(root, "steps").found
                        THEN Find(root, "steps").el.children ELSE <<>>
       IN IF root.tag # "recipe" THEN Fail("root")
          ELSE IF ~ParseServings(Strip(OrEmpty(FindText(root, "servings")))).ok
               THEN Fail("servings")
          ELSE IF ~Find(root, "ingredients").found THEN Fail("ingredients")
          ELSE IF \E i \in 1..Len(ichildren) :
                    ~IsItem(ichildren[i]) \/ ~ParseAmount(ItemAmountText(ichildren[i])).ok
               THEN Fail("amount")
          ELSE IF ~Find(root, "steps").found THEN Fail("steps")
          ELSE IF \E i \in 1..Len(schildren) : ~KeptStep(schildren[i])
               THEN Fail("step")
          ELSE Ok(RecipeDict(
                 PyStr(Strip(OrEmpty(FindText(root, "title")))),
                 PyInt(ParseServings(Strip(OrEmpty(FindText(root, "servings")))).val),
                 PyList([i \in 1..Len(ichildren) |-> DecodeItem(ichildren[i])]),
                 PyList([i \in 1..Len(schildren) |->
                           PyStr(Strip(OrEmpty(schildren[i].text)))])))

\* _from_xml without the test of the root tag and with a missing <ingredients>
\* or <steps> read as an empty list
_from_xml_lax(b) ==
  IF ~fromstring(b).ok THEN Fail("ParseError")
  ELSE LET root == fromstring(b).val
           items == SelectSeq(IF Find(root, "ingredients").found
                              THEN Find(root, "ingredients").el.children ELSE <<>>, IsItem)
           kept == SelectSeq(IF Find(root, "steps").found
                             THEN Find(root, "steps").el.children ELSE <<>>, KeptStep)
       IN IF ~ParseServings(Strip(OrEmpty(FindText(root, "servings")))).ok
          THEN Fail("servings")
          ELSE IF \E i \in 1..Len(items) : ~ParseAmount(ItemAmountText(items[i])).ok
               THEN Fail("amount")
          ELSE Ok(RecipeDict(
                 PyStr(Strip(OrEmpty(FindText(root, "title")))),
                 PyInt(ParseServings(Strip(OrEmpty(FindText(root, "servings")))).val),
                 PyList([i \in 1..Len(items) |-> DecodeItem(items[i])]),
                 PyList([i \in 1..Len(kept) |-> PyStr(Strip(OrEmpty(kept[i].text)))])))

_from_xml(b) ==
  LET parsed == fromstring(b)
      root == parsed.val
      title == Strip(OrEmpty(FindText(root, "title")))
      servings == ParseServings(Strip(OrEmpty(FindText(root, "servings"))))
      ingredients_el == Find(root, "ingredients")
      items == SelectSeq(IF ingredients_el.found
                         THEN ingredients_el.el.children ELSE <<>>, IsItem)
      amounts == [i \in 1..Len(items) |-> ParseAmount(ItemAmountText(items[i]))]
      steps_el == Find(root, "steps")
      kept == SelectSeq(IF steps_el.found THEN steps_el.el.children ELSE <<>>, KeptStep)
  IN IF ~parsed.ok THEN Fail("ParseError")
     ELSE IF root.tag # "recipe" THEN Fail("root")
     ELSE IF ~servings.ok THEN Fail("servings")
     ELSE IF ~ingredients_el.found THEN Fail("ingredients")
     ELSE IF \E i \in 1..Len(items) : ~amounts[i].ok THEN Fail("amount")
     ELSE IF ~steps_el.found THEN Fail("steps")
     ELSE Ok(RecipeDict(
            PyStr(title),
            PyInt(servings.val),
            PyList([i \in 1..Len(items) |->
                      IngDict(ItemAttr(items[i], "name"), amounts[i].val,
                              ItemAttr(items[i], "unit"))]),
            PyList([i \in 1..Len(kept) |-> PyStr(Strip(OrEmpty(kept[i].text)))])))

(************************ inputs of the validator **************************)
T(str) == PyStr(str)
GoodIng == IngDict(T(<<"a">>), PyInt(1), T(<<"g">>))
GoodIngs == PyList(<<GoodIng>>)
GoodSteps == PyList(<<T(<<"m">>)>>)

TitleInputs ==
  {None, PyInt(5), T(<<>>), T(<<"a">>), T(<<" ", "a", " ">>),
   T(Repeat("a", MaxTitleLen)), T(Repeat("a", MaxTitleLen + 1))}

ServingsInputs ==
  {None, T(<<"2">>), PyInt(-1), PyInt(0), PyInt(1), PyInt(2),
   PyFloat(20, 1), PyFloat(27, 1), PyFloat(5, 1), PyFloat(-27, 1), NaN}

AmountInputs ==
  {None, PyInt(0), PyInt(2), PyFloat(15, 1), PyFloat(-5, 1), NaN,
   T(<<"2">>), T(<<"n", "a", "n">>), T(<<"a">>)}

IngInputs ==
  {GoodIng, T(<<"a">>)}
    \cup {IngDict(n, PyInt(1), T(<<"g">>)) : n \in {None, T(<<>>), T(<<" ", "a">>)}}
    \cup {IngDict(T(<<"a">>), a, T(<<"g">>)) : a \in AmountInputs}
    \cup {IngDict(T(<<"a">>), PyInt(1), u) : u \in {None, T(<<>>), T(<<"g", " ">>)}}

StepInputs == {PyInt(1), T(<<>>), T(<<" ">>), T(<<"m">>), T(<<" ", "m", " ">>)}

SeqsUpTo(S, n) == UNION {[1..k -> S] : k \in 0..n}

IngListInputs == {None} \cup {PyList(q) : q \in SeqsUpTo(IngInputs, MaxItems)}
StepListInputs == {None} \cup {PyList(q) : q \in SeqsUpTo(StepInputs, MaxSteps)}

ValidatorInputs ==
  {None, PyList(<<>>), T(<<"a">>)}
    \cup {RecipeDict(t, s, i, p) :
            t \in TitleInputs, s \in ServingsInputs,
            i \in {GoodIngs, PyList(<<>>)}, p \in {GoodSteps, PyList(<<>>)}}
    \cup {RecipeDict(T(<<"a">>), s, i, GoodSteps) :
            s \in {PyInt(1), PyFloat(27, 1)}, i \in IngListInputs}
    \cup {RecipeDict(T(<<"a">>), s, i, p) :
            s \in {PyInt(1), PyFloat(27, 1)}, i \in {GoodIngs, PyList(<<>>)},
            p \in StepListInputs}

(******************* a call of _validate_recipe_dict ***********************)
NoRet == [ok |-> FALSE, err |-> "no call yet"]
NoForm == [is_valid |-> FALSE]
NoBytes == [kind |-> "none"]
NoResp == [op |-> "none", status |-> 0]

IdleRest ==
  /\ dec = NoRet /\ form = NoForm
  /\ raw = NoBytes /\ store = <<>> /\ used = {} /\ accepted = <<>> /\ resp = NoResp

InitValidate ==
  /\ pc = "call"
  /\ data \in ValidatorInputs
  /\ orig = data
  /\ ret = NoRet
  /\ IdleRest

\* data = ...; _validate_recipe_dict(data): the callee works on the caller's object
CallValidate ==
  /\ pc = "call"
  /\ ret' = _validate_recipe_dict(data)
  /\ data' = ret'.obj
  /\ pc' = "returned"
  /\ UNCHANGED <<orig, dec, form, raw, store, used, accepted, resp>>

NextValidate == CallValidate

SpecValidate == InitValidate /\ [][NextValidate]_vars

(************************ XML round trip harness ***************************)
RoundTripIngs ==
  {IngDict(T(<<"a">>), a, T(<<"g">>)) :
     a \in {PyInt(2), PyFloat(15, 1), PyFloat(25, 2), PyFloat(10, 0), T(<<"2">>), NaN}}
    \cup {IngDict(T(<<" ", "a">>), PyInt(1), T(<<"g">>)),
          IngDict(T(<<"a">>), PyFloat(5, 1), T(<<"g", " ">>))}

RoundTripSteps == {T(<<"m">>), T(<<"m", " ", "n">>), T(<<" ", "m">>)}

RoundTripInputs ==
  {RecipeDict(t, s, PyList(i), PyList(p)) :
     t \in {T(<<"a", " ", "b">>), T(<<" ", "a", " ">>)},
     s \in {PyInt(12), PyFloat(27, 1)},
     i \in SeqsUpTo(RoundTripIngs, MaxItems) \ {<<>>},
     p \in SeqsUpTo(RoundTripSteps, MaxSteps)}

InitRoundTrip ==
  /\ pc = "call"
  /\ data \in RoundTripInputs
  /\ orig = data
  /\ ret = NoRet
  /\ IdleRest

\* raw = _to_xml(d) for the document d the validator returned
Encode ==
  /\ pc = "returned" /\ ret.ok
  /\ raw' = _to_xml(ret.obj)
  /\ pc' = "encoded"
  /\ UNCHANGED <<data, orig, ret, dec, form, store, used, accepted, resp>>

\* the same bytes with "," put for "." in every amount
CommaForDot(b) ==
  LET sub(el) == IF el.tag = "item" /\ el.text.t = "str"
                 THEN [el EXCEPT !.text = PyStr(Replace(el.text.s, ".", ","))]
                 ELSE el
      inner(el) == IF el.tag = "ingredients"
                   THEN [el EXCEPT !.children =
                           [i \in 1..Len(el.children) |-> sub(el.children[i])]]
                   ELSE el
  IN [b EXCEPT !.root.children =
        [i \in 1..Len(b.root.children) |-> inner(b.root.children[i])]]

SubstituteComma ==
  /\ pc = "encoded"
  /\ raw' = CommaForDot(raw)
  /\ pc' = "substituted"
  /\ UNCHANGED <<data, orig, ret, dec, form, store, used, accepted, resp>>

\* _from_xml(raw)
Decode ==
  /\ pc \in {"encoded", "substituted", "bytes"}
  /\ dec' = _from_xml(raw)
  /\ pc' = "decoded"
  /\ UNCHANGED <<data, orig, ret, form, raw, store, used, accepted, resp>>

NextRoundTrip == CallValidate \/ Encode \/ SubstituteComma \/ Decode

SpecRoundTrip == InitRoundTrip /\ [][NextRoundTrip]_vars

(*************************** XML decode harness ****************************)
ItemInputs ==
  {El("item", [name |-> <<"a">>, unit |-> <<"g">>], T(<<"1", ",", "5">>), <<>>),
   El("item", [name |-> <<" ", "a">>, unit |-> <<"g", " ">>], T(<<" ", "2", ".", "5">>), <<>>),
   El("item", NoAttrib, T(<<"3">>), <<>>),
   El("item", [name |-> <<"a">>, unit |-> <<"g">>], T(<<"x">>), <<>>),
   El("item", [name |-> <<"a">>, unit |-> <<"g">>], None, <<>>),
   El("note", [name |-> <<"a">>], T(<<"x">>), <<>>)}

StepElInputs ==
  {Leaf("step", T(<<"m">>)), Leaf("step", T(<<" ", "n", " ">>)),
   Leaf("step", T(<<" ">>)), Leaf("step", None), Leaf("note", T(<<"z">>))}

IngredientsElInputs ==
  {El("ingredients", NoAttrib, None, q) : q \in SeqsUpTo(ItemInputs, MaxItems)}

StepsElInputs ==
  {El("steps", NoAttrib, None, q) : q \in SeqsUpTo(StepElInputs, MaxSteps)}

ServingsTextInputs ==
  {None, T(<<"2">>), T(<<"2", ".", "0">>), T(<<"2", ".", "7">>),
   T(<<"-", "2", ".", "7">>), T(<<" ", "1", "2", " ">>), T(<<"x">>), T(<<"n", "a", "n">>)}

GoodIngredientsEl == El("ingredients", NoAttrib, None,
                        <<El("item", [name |-> <<"a">>, unit |-> <<"g">>], T(<<"1">>), <<>>)>>)
GoodStepsEl == El("steps", NoAttrib, None, <<Leaf("step", T(<<"m">>))>>)

\* the children of the root: each part present or absent
RootChildren(title, servings, ing, steps) ==
  (IF title = <<>> THEN <<>> ELSE <<Leaf("title", title[1])>>)
    \o (IF servings = <<>> THEN <<>> ELSE <<Leaf("servings", servings[1])>>)
    \o ing \o steps

XmlInputs ==
  {[kind |-> "garbage"]}
    \cup {tostring(El(root, NoAttrib, None, RootChildren(t, s, i, p))) :
            root \in {"recipe", "recipes"},
            t \in {<<>>, <<T(<<" ", "a">>)>>},
            s \in {<<>>} \cup {<<x>> : x \in ServingsTextInputs},
            i \in {<<>>, <<GoodIngredientsEl>>},
            p \in {<<>>, <<GoodStepsEl>>}}
    \cup {tostring(El("recipe", NoAttrib, None,
                      RootChildren(<<T(<<"a">>)>>, <<T(<<"2", ".", "0">>)>>, <<i>>, <<p>>))) :
            i \in IngredientsElInputs, p \in StepsElInputs}

InitDecode ==
  /\ pc = "bytes"
  /\ raw \in XmlInputs
  /\ data = None /\ orig = None
  /\ ret = NoRet /\ dec = NoRet /\ form = NoForm
  /\ store = <<>> /\ used = {} /\ accepted = <<>> /\ resp = NoResp

\* data = _from_xml(raw); _validate_recipe_dict(data), as upload_file and
\* view_file compose them
ValidateDecoded ==
  /\ pc = "decoded" /\ dec.ok
  /\ orig' = dec.val
  /\ ret' = _validate_recipe_dict(dec.val)
  /\ data' = ret'.obj
  /\ pc' = "returned"
  /\ UNCHANGED <<dec, form, raw, store, used, accepted, resp>>

NextDecode == Decode \/ ValidateDecoded

SpecDecode == InitDecode /\ [][NextDecode]_vars

(***************************** the file store ******************************)
MaxIds == 2        \* how many names _safe_name generates in a run

\* uuid4().hex values, as many as a run can draw
HexPool == <<"0a1f", "9c3e", "b7d2", "e4f8", "5566", "c0de">>
HexIds == {HexPool[i] : i \in 1..MaxIds}
AnyHex == {HexPool[i] : i \in 1..Len(HexPool)}

\* "json" if fmt == "json" else "xml"
Suffix(fmt) == IF fmt = "json" THEN ".json" ELSE ".xml"

\* _data_dir(fmt): the directory <DATA_DIR>/<fmt>
_data_dir(fmt) == fmt

\* _safe_name that ignores the identifier it drew
_safe_name_fixed(fmt, id) == <<"recipe-", HexPool[1], Suffix(fmt)>>

\* _safe_name(fmt) for the identifier uuid4 returned; a name is the sequence
\* of its parts
_safe_name(fmt, id) == <<"recipe-", id, Suffix(fmt)>>

Path(dir, name) == [dir |-> dir, name |-> name]

\* path.write_bytes(raw) / target.open("wb"): creates or replaces the file
write_bytes(s, f, b) ==
  [x \in DOMAIN s \cup {f} |-> IF x = f THEN b ELSE s[x]]

\* unlink that leaves the file in place
unlink_noop(s, f) == s

\* target.unlink(missing_ok=True)
unlink(s, f) == [x \in DOMAIN s \ {f} |-> s[x]]

_to_json(obj) == [kind |-> "json", val |-> obj]

_from_json(b) == IF b.kind = "json" THEN Ok(b.val) ELSE Fail("JSONDecodeError")

\* _list_files(fmt): the names in the directory that end with the suffix
_list_files(s, fmt) ==
  {f.name : f \in {x \in DOMAIN s :
                     x.dir = _data_dir(fmt) /\ x.name[Len(x.name)] = Suffix(fmt)}}

\* the name test of _read_file: startswith("recipe-") and endswith(suffix)
NameAllowed(fmt, fname) ==
  fname # <<>> /\ fname[1] = "recipe-" /\ fname[Len(fname)] = Suffix(fmt)

\* _read_file(fmt, fname) on the store s: the bytes, or Http404
_read_file(s, fmt, fname) ==
  IF ~NameAllowed(fmt, fname) THEN Fail("bad name")
  ELSE IF Path(_data_dir(fmt), fname) \notin DOMAIN s THEN Fail("not found")
  ELSE Ok(s[Path(_data_dir(fmt), fname)])

\* _from_json(raw) if fmt == "json" else _from_xml(raw)
Decoded(fmt, b) == IF fmt = "json" THEN _from_json(b) ELSE _from_xml(b)

(******************************* RecipeForm ********************************)
RECURSIVE Split(_, _)
\* str.split(sep)
Split(s, sep) ==
  LET hits == {i \in 1..Len(s) : s[i] = sep}
      i == CHOOSE j \in hits : \A m \in hits : j <= m
  IN IF hits = {} THEN <<s>>
     ELSE <<SubSeq(s, 1, i - 1)>> \o Split(SubSeq(s, i + 1, Len(s)), sep)

IsBlank(s) == Strip(s) = <<>>

\* forms.IntegerField: the stripped text, a trailing ".000" dropped, as an int
CleanInteger(text) ==
  LET s == Strip(text)
      cuts == {i \in 1..Len(s) : s[i] = "." /\ \A j \in (i + 1)..Len(s) : s[j] = "0"}
      body == IF cuts = {} THEN s ELSE SubSeq(s, 1, (CHOOSE i \in cuts : TRUE) - 1)
      neg == body # <<>> /\ Head(body) = "-"
      digits == IF neg THEN Tail(body) ELSE body
  IN IF digits = <<>> \/ ~AllDigits(digits) THEN Fail("invalid")
     ELSE Ok(IF neg THEN -DigitsVal(digits) ELSE DigitsVal(digits))

\* one line "Name;amount;unit" of the ingredients text
ParseIngredientLine(line) ==
  LET split == Split(Strip(line), ";")
      parts == [i \in 1..Len(split) |-> Strip(split[i])]
      amount_val == ParseAmount(parts[2])
  IN IF Len(parts) # 3 THEN Fail("format")
     ELSE IF parts[1] = <<>> THEN Fail("name")
     ELSE IF ~amount_val.ok THEN Fail("amount_not_number")
     ELSE IF FloatLeqZero(amount_val.val) THEN Fail("amount_not_positive")
     ELSE IF parts[3] = <<>> THEN Fail("unit")
     ELSE Ok(IngDict(PyStr(parts[1]), amount_val.val, PyStr(parts[3])))

NonBlank(line) == ~IsBlank(line)

\* [s.strip() for s in steps_raw.splitlines() if s.strip()]
ParseSteps(lines) ==
  LET kept == SelectSeq(lines, NonBlank)
  IN [i \in 1..Len(kept) |-> PyStr(Strip(kept[i]))]

\* RecipeForm.clean passing over the ingredient lines it cannot parse
RecipeForm_clean_skip_bad_lines(post) ==
  LET GoodLine(l) == ~IsBlank(l) /\ ParseIngredientLine(l).ok
      lines == SelectSeq(post.ingredients, GoodLine)
      steps_list == ParseSteps(post.steps)
  IN IF lines = <<>> THEN Fail("no ingredient")
     ELSE IF steps_list = <<>> THEN Fail("no step")
     ELSE Ok([ingredients_parsed |-> [i \in 1..Len(lines) |-> ParseIngredientLine(lines[i]).val],
              steps_parsed |-> steps_list])

\* RecipeForm.clean: ingredients_parsed and steps_parsed, or a ValidationError
RecipeForm_clean(post) ==
  LET lines == SelectSeq(post.ingredients, NonBlank)
      parsed == [i \in 1..Len(lines) |-> ParseIngredientLine(lines[i])]
      steps_list == ParseSteps(post.steps)
  IN IF lines = <<>> THEN Fail("no ingredient")
     ELSE IF \E i \in 1..Len(lines) : ~parsed[i].ok THEN Fail("ingredient")
     ELSE IF steps_list = <<>> THEN Fail("no step")
     ELSE Ok([ingredients_parsed |-> [i \in 1..Len(lines) |-> parsed[i].val],
              steps_parsed |-> steps_list])

\* the declared fields of RecipeForm: title (max_length 100, stripped),
\* servings (min_value 1), format (json or xml); the text areas are required
CleanFields(post) ==
  LET title == Strip(post.title)
      servings == CleanInteger(post.servings)
  IN IF /\ title # <<>> /\ Len(title) <= MaxTitleLen
        /\ servings.ok /\ servings.val >= 1
        /\ \E i \in 1..Len(post.ingredients) : ~IsBlank(post.ingredients[i])
        /\ \E i \in 1..Len(post.steps) : ~IsBlank(post.steps[i])
        /\ post.format \in {"json", "xml"}
     THEN Ok([title |-> title, servings |-> servings.val, format |-> post.format])
     ELSE Fail("field errors")

\* RecipeForm(request.POST): is_valid() and cleaned_data
RecipeForm(post) ==
  LET fields == CleanFields(post)
      cleaned == RecipeForm_clean(post)
  IN IF fields.ok /\ cleaned.ok
     THEN [is_valid |-> TRUE,
           cleaned_data |-> [title |-> fields.val.title,
                             servings |-> fields.val.servings,
                             format |-> fields.val.format,
                             ingredients_parsed |-> cleaned.val.ingredients_parsed,
                             steps_parsed |-> cleaned.val.steps_parsed]]
     ELSE [is_valid |-> FALSE]

\* the dict save_data assembles from cleaned_data
FormData(cleaned_data) ==
  RecipeDict(PyStr(Strip(cleaned_data.title)),
             PyInt(cleaned_data.servings),
             PyList(cleaned_data.ingredients_parsed),
             PyList(cleaned_data.steps_parsed))

(***************************** the requests ********************************)
GoodTitle == <<"a", " ", "b">>
GoodLine == <<"a", ";", "1", ",", "5", ";", "g">>
Form(title, servings, ingredients, steps, format) ==
  [title |-> title, servings |-> servings, ingredients |-> ingredients,
   steps |-> steps, format |-> format]

FormInputs ==
  {Form(GoodTitle, <<"2">>, <<GoodLine>>, <<<<"m">>>>, f) : f \in {"json", "xml", "yaml"}}
    \cup {Form(t, <<"2">>, <<GoodLine>>, <<<<"m">>>>, "json") :
            t \in {<<" ">>, Repeat("a", MaxTitleLen + 1)}}
    \cup {Form(GoodTitle, n, <<GoodLine>>, <<<<" ", "m">>, <<" ">>>>, "xml") :
            n \in {<<"0">>, <<"2", ".", "0">>, <<"2", ".", "5">>, <<>>}}
    \cup {Form(GoodTitle, <<"1">>, i, <<<<"m">>>>, "json") :
            i \in {<<>>, <<<<" ">>>>, <<GoodLine, <<"a", ";", "1">>>>,
                   <<<<" ">>, <<" ", "a", " ", ";", "2", ";", "g">>>>,
                   <<<<"a", ";", "x", ";", "g">>>>, <<<<"a", ";", "0", ";", "g">>>>,
                   <<<<";", "1", ";", "g">>>>, <<<<"a", ";", "1", ";">>>>,
                   <<<<"a", ";", "n", "a", "n", ";", "g">>>>}}
    \cup {Form(GoodTitle, <<"1">>, <<GoodLine>>, p, "xml") : p \in {<<>>, <<<<" ">>>>}}

NoFile == [present |-> FALSE]
Upload(name_ext, content_type, bytes) ==
  [present |-> TRUE, name_ext |-> name_ext, content_type |-> content_type, bytes |-> bytes]

GoodDoc == RecipeDict(T(<<"a">>), PyInt(1), GoodIngs, GoodSteps)

UploadBytes ==
  {[kind |-> "garbage"],
   _to_json(GoodDoc),
   _to_json(RecipeDict(T(<<>>), PyInt(1), GoodIngs, GoodSteps)),
   _to_json(PyList(<<>>)),
   _to_xml(GoodDoc),
   tostring(El("recipe", NoAttrib, None,
               RootChildren(<<T(<<"a">>)>>, <<T(<<"1">>)>>, <<GoodIngredientsEl>>, <<>>))),
   tostring(El("recipe", NoAttrib, None,
               RootChildren(<<T(<<"a">>)>>, <<T(<<"0">>)>>, <<GoodIngredientsEl>>,
                            <<GoodStepsEl>>)))}

\* the bytes {"title": "\ud800", "servings": 1, ...}: JSON that decodes to a
\* document whose title is the one character U+D800
SurrogateDoc ==
  [kind |-> "json", val |-> RecipeDict(T(<<Surrogate>>), PyInt(1), GoodIngs, GoodSteps)]

UploadInputs ==
  {NoFile, Upload(".json", "", SurrogateDoc)}
    \cup {Upload(e, "", b) : e \in {".json", ".xml", ".txt"}, b \in UploadBytes}
    \cup {Upload(".txt", ct, b) :
            ct \in {"application/json", "text/xml"},
            b \in {[kind |-> "garbage"], _to_json(GoodDoc), _to_xml(GoodDoc)}}

\* the format upload_file takes the file for; "" when it supports neither
SniffFormat(up) ==
  IF up.content_type \in {"application/json", "text/json"} \/ up.name_ext = ".json"
  THEN "json"
  ELSE IF up.content_type \in {"application/xml", "text/xml"} \/ up.name_ext = ".xml"
  THEN "xml"
  ELSE ""

\* a file somebody put into data/json by hand
ForeignFile == Path("json", <<"recipe-", "notes", ".json">>)

InitialStores ==
  {<<>>, [f \in {ForeignFile} |-> _to_json(GoodDoc)]}

Init ==
  /\ pc = "idle"
  /\ data = None /\ orig = None /\ ret = NoRet /\ dec = NoRet /\ form = NoForm
  /\ raw = NoBytes
  /\ store \in InitialStores
  /\ used = {}
  /\ accepted = <<>>
  /\ resp = NoResp

Files == [json |-> _list_files(store, "json"), xml |-> _list_files(store, "xml")]

\* a request starts with no locals of the one before
NoLocals == data' = None /\ orig' = None /\ ret' = NoRet /\ raw' = NoBytes

index ==
  /\ pc = "idle"
  /\ resp' = [op |-> "index", status |-> 200, files |-> Files]
  /\ form' = NoForm /\ dec' = NoRet /\ NoLocals
  /\ UNCHANGED <<pc, store, used, accepted>>

save_data ==
  /\ pc = "idle"
  /\ \E post \in FormInputs :
       /\ form' = RecipeForm(post)
       /\ IF ~form'.is_valid
          THEN /\ resp' = [op |-> "save", status |-> 200, outcome |-> "form errors",
                           post |-> post, before |-> store, files |-> Files]
               /\ NoLocals
               /\ UNCHANGED <<store, used, accepted>>
          ELSE \E id \in HexIds \ used :
                 LET fmt == form'.cleaned_data.format
                     path == Path(_data_dir(fmt), _safe_name(fmt, id))
                 IN /\ used' = used \cup {id}
                    /\ orig' = FormData(form'.cleaned_data)
                    /\ ret' = _validate_recipe_dict(orig')
                    /\ data' = ret'.obj
                    /\ IF ~ret'.ok
                       THEN /\ raw' = NoBytes
                            /\ resp' = [op |-> "save", status |-> 500, outcome |-> "error",
                                        post |-> post, before |-> store]
                            /\ UNCHANGED <<store, accepted>>
                       ELSE /\ raw' = IF fmt = "json" THEN _to_json(data') ELSE _to_xml(data')
                            /\ store' = write_bytes(store, path, raw')
                            /\ accepted' = write_bytes(accepted, path, raw')
                            /\ resp' = [op |-> "save", status |-> 302, outcome |-> "saved",
                                        post |-> post, before |-> store, path |-> path]
  /\ dec' = NoRet
  /\ UNCHANGED pc

upload_file ==
  /\ pc = "idle"
  /\ \E up \in UploadInputs :
       IF ~up.present \/ SniffFormat(up) = ""
       THEN /\ resp' = [op |-> "upload", status |-> 302,
                        outcome |-> IF up.present THEN "unsupported" ELSE "no file",
                        written |-> FALSE, before |-> store]
            /\ dec' = NoRet /\ NoLocals
            /\ UNCHANGED <<store, used, accepted>>
       ELSE \E id \in HexIds \ used :
              LET fmt == SniffFormat(up)
                  target == Path(_data_dir(fmt), _safe_name(fmt, id))
                  written == write_bytes(store, target, up.bytes)
              IN /\ used' = used \cup {id}
                 /\ raw' = written[target]
                 /\ dec' = Decoded(fmt, raw')
                 /\ orig' = IF dec'.ok THEN dec'.val ELSE None
                 /\ ret' = IF dec'.ok THEN _validate_recipe_dict(orig') ELSE NoRet
                 /\ data' = IF dec'.ok THEN ret'.obj ELSE None
                 /\ IF ~ret'.ok
                    THEN /\ store' = unlink(written, target)
                         /\ UNCHANGED accepted
                         /\ resp' = [op |-> "upload", status |-> 302,
                                     outcome |-> "rejected", written |-> TRUE,
                                     before |-> store, path |-> target]
                    ELSE /\ store' = written
                         /\ accepted' = write_bytes(accepted, target, raw')
                         /\ resp' = [op |-> "upload", status |-> 302,
                                     outcome |-> "valid", written |-> TRUE,
                                     before |-> store, path |-> target]
  /\ form' = NoForm
  /\ UNCHANGED pc

\* HttpResponse("".join(html)) encodes the page, which holds the title, the
\* ingredient names and units and the steps of the validated document
PageEncodes(d) ==
  /\ Utf8Encodable(d.title.s)
  /\ \A i \in 1..Len(d.ingredients.items) :
       /\ Utf8Encodable(d.ingredients.items[i].name.s)
       /\ Utf8Encodable(d.ingredients.items[i].unit.s)
  /\ \A i \in 1..Len(d.steps.items) : Utf8Encodable(d.steps.items[i].s)

\* (fmt or "").lower()
Lower(fmt) == CASE fmt = "JSON" -> "json" [] fmt = "XML" -> "xml" [] OTHER -> fmt

ViewFormats == {"json", "xml", "JSON", "txt"}

\* names a client may ask for: those of the listing and some of its own
ViewNames ==
  {f.name : f \in DOMAIN store}
    \cup {<<"../", "../", "etc/passwd", ".json">>,
          <<"recipe-", "notes", ".json">>,
          <<"recipe-", HexPool[1], ".json">>,
          <<"recipe-", HexPool[1], ".xml">>,
          <<"notes", ".json">>}

view_file ==
  /\ pc = "idle"
  /\ \E f \in ViewFormats, fname \in ViewNames :
       LET fmt == Lower(f)
           rd == IF fmt \in {"json", "xml"} THEN _read_file(store, fmt, fname)
                 ELSE Fail("bad format")
       IN /\ raw' = IF rd.ok THEN rd.val ELSE NoBytes
          /\ dec' = IF rd.ok THEN Decoded(fmt, raw') ELSE NoRet
          /\ orig' = IF dec'.ok THEN dec'.val ELSE None
          /\ ret' = IF dec'.ok THEN _validate_recipe_dict(orig') ELSE NoRet
          /\ data' = IF dec'.ok THEN ret'.obj ELSE None
          /\ resp' =
               IF ~rd.ok
               THEN [op |-> "view", fmt |-> fmt, fname |-> fname,
                     status |-> 404, read |-> FALSE, body |-> rd.err]
               ELSE IF ~ret'.ok
               THEN [op |-> "view", fmt |-> fmt, fname |-> fname,
                     status |-> 200, read |-> TRUE, body |-> "pre"]
               ELSE IF ~PageEncodes(data')
               THEN [op |-> "view", fmt |-> fmt, fname |-> fname,
                     status |-> 500, read |-> TRUE, body |-> "UnicodeEncodeError"]
               ELSE [op |-> "view", fmt |-> fmt, fname |-> fname,
                     status |-> 200, read |-> TRUE, body |-> "page"]
  /\ form' = NoForm
  /\ UNCHANGED <<pc, store, used, accepted>>

Next == index \/ save_data \/ upload_file \/ view_file

Spec == Init /\ [][Next]_vars

(********************** claims about the validator *************************)
AmountPositive(a) == ToFloat(a).ok /\ FloatGtZero(ToFloat(a).val)

IngredientValid(ing) ==
  /\ IsIngDict(ing)
  /\ IsStr(ing.name) /\ ing.name.s # <<>>
  /\ IsStr(ing.unit) /\ ing.unit.s # <<>>
  /\ AmountPositive(ing.amount)

Fields123Valid(d) ==
  /\ IsRecipeDict(d)
  /\ IsStr(d.title) /\ 1 <= Len(d.title.s) /\ Len(d.title.s) <= MaxTitleLen
  /\ d.servings.t = "int" /\ d.servings.n >= 1
  /\ d.ingredients.t = "list" /\ d.ingredients.items # <<>>
  /\ \A i \in 1..Len(d.ingredients.items) : IngredientValid(d.ingredients.items[i])

\* the inputs the claim lists as rejected
ListedAsRejected(d) ==
  /\ IsRecipeDict(d)
  /\ \/ IsStr(d.title) /\ Len(d.title.s) \in {0, MaxTitleLen + 1}
     \/ d.servings.t = "int" /\ d.servings.n <= 0
     \/ d.ingredients = PyList(<<>>)
     \/ /\ d.ingredients.t = "list"
        /\ \E i \in 1..Len(d.ingredients.items) :
             LET ing == d.ingredients.items[i]
             IN /\ IsIngDict(ing)
                /\ \/ ing.name = PyStr(<<>>)
                   \/ ing.unit = PyStr(<<>>)
                   \/ ToFloat(ing.amount).ok /\ FloatLeqZero(ToFloat(ing.amount).val)

\* C1: whenever _validate_recipe_dict returns, the returned document has a
\* title of 1..100 characters, an integer servings >= 1 and a non-empty
\* ingredients list whose every element has a non-empty name, a non-empty unit
\* and an amount that converts to a number > 0; and every input with a title of
\* length 0 or 101, servings <= 0, no ingredients, or an ingredient with amount
\* <= 0, empty name or empty unit is rejected.
C1_AcceptedSatisfiesInvariants ==
  pc = "returned" =>
    /\ ret.ok => Fields123Valid(ret.obj)
    /\ ListedAsRejected(orig) => ~ret.ok

StepsValid(steps) ==
  /\ steps.t = "list" /\ steps.items # <<>>
  /\ \A i \in 1..Len(steps.items) :
       IsStr(steps.items[i]) /\ Strip(steps.items[i].s) # <<>>

\* C2: every document _validate_recipe_dict accepts has a non-empty steps
\* list whose every element is non-empty after trimming.
C2_AcceptedStepsNonEmpty ==
  pc = "returned" /\ ret.ok => StepsValid(ret.obj.steps)

IsTrimmed(v) == IsStr(v) /\ Strip(v.s) = v.s

\* no text of the document has a leading or trailing blank
TrimmedDoc(d) ==
  /\ IsTrimmed(d.title)
  /\ \A i \in 1..Len(d.ingredients.items) :
       IsTrimmed(d.ingredients.items[i].name) /\ IsTrimmed(d.ingredients.items[i].unit)
  /\ \A i \in 1..Len(d.steps.items) : IsTrimmed(d.steps.items[i])

\* every amount is an int or a float other than NaN
NumericAmounts(d) ==
  \A i \in 1..Len(d.ingredients.items) :
    d.ingredients.items[i].amount.t \in {"int", "float"}

\* C3 as claimed: for every document d the validator accepts,
\* _from_xml(_to_xml(d)) equals d field for field, and so does the decoding of
\* the same bytes with "," for "." in every amount.
C3_XmlRoundTrip ==
  pc = "decoded" => dec.ok /\ PyEq(dec.val, data)

\* what decoding keeps of a document: every text trimmed, every amount as
\* float(amount)
Normalized(d) ==
  RecipeDict(
    PyStr(Strip(d.title.s)),
    d.servings,
    PyList([i \in 1..Len(d.ingredients.items) |->
              IngDict(PyStr(Strip(d.ingredients.items[i].name.s)),
                      ToFloat(d.ingredients.items[i].amount).val,
                      PyStr(Strip(d.ingredients.items[i].unit.s)))]),
    PyList([i \in 1..Len(d.steps.items) |-> PyStr(Strip(d.steps.items[i].s))]))

\* C3 as amended: the round trip (plain, and with "," for "." in every amount)
\* gives back d with its title, ingredient names, units and steps trimmed and
\* every amount converted by float(); so it gives back d itself when no text of
\* d has a leading or trailing blank and every amount of d is an int or a float
\* other than NaN.
C3_XmlRoundTripOfTrimmed ==
  pc = "decoded" =>
    /\ dec.ok
    /\ dec.val = Normalized(data)
    /\ TrimmedDoc(data) /\ NumericAmounts(data) => PyEq(dec.val, data)

HasCommaAmount(b) ==
  /\ b.kind = "xml"
  /\ \E i \in 1..Len(b.root.children) :
       /\ b.root.children[i].tag = "ingredients"
       /\ \E j \in 1..Len(b.root.children[i].children) :
            LET txt == b.root.children[i].children[j].text
            IN txt.t = "str" /\ \E n \in 1..Len(txt.s) : txt.s[n] = ","

\* C3 witness: a trimmed document with a fractional amount, decoded back from
\* bytes that carry the amount with a decimal comma
C3_Witness ==
  /\ pc = "decoded" /\ dec.ok
  /\ TrimmedDoc(data) /\ NumericAmounts(data)
  /\ HasCommaAmount(raw)
  /\ Len(data.steps.items) = 2
  /\ PyEq(dec.val, data)

HasChild(el, tag) == \E i \in 1..Len(el.children) : el.children[i].tag = tag

\* C9: decoding well-formed XML fails whenever the root is not named recipe,
\* or has no <ingredients> child, or has no <steps> child, whatever else the
\* document holds.
C9_XmlDecodeFatalCases ==
  pc = "decoded" /\ raw.kind = "xml"
    /\ (\/ raw.root.tag # "recipe"
        \/ ~HasChild(raw.root, "ingredients")
        \/ ~HasChild(raw.root, "steps"))
    => ~dec.ok

\* C9 witness: a <recipe> with readable servings and ingredients whose only
\* defect is the missing <steps>, refused
C9_Witness ==
  /\ pc = "decoded" /\ raw.kind = "xml"
  /\ raw.root.tag = "recipe"
  /\ HasChild(raw.root, "ingredients") /\ ~HasChild(raw.root, "steps")
  /\ FindText(raw.root, "servings") = T(<<"2">>)
  /\ ~dec.ok

\* what the claim expects of the servings and amount texts of the inputs
ExpectedServings(text) ==
  CASE text = T(<<"2">>) -> PyInt(2)
    [] text = T(<<"2", ".", "0">>) -> PyInt(2)
    [] text = T(<<"2", ".", "7">>) -> PyInt(2)
    [] text = T(<<"-", "2", ".", "7">>) -> PyInt(-2)
    [] text = T(<<" ", "1", "2", " ">>) -> PyInt(12)
    [] OTHER -> None

ExpectedAmount(text) ==
  CASE text = T(<<"1", ",", "5">>) -> [t |-> "float", num |-> 15, k |-> 1]
    [] text = T(<<" ", "2", ".", "5">>) -> [t |-> "float", num |-> 25, k |-> 1]
    [] text = T(<<"3">>) -> [t |-> "float", num |-> 3, k |-> 0]
    [] text = T(<<"1">>) -> [t |-> "float", num |-> 1, k |-> 0]
    [] OTHER -> None

ExpectedStep(text) ==
  CASE text = T(<<"m">>) -> T(<<"m">>)
    [] text = T(<<" ", "n", " ">>) -> T(<<"n">>)
    [] OTHER -> None

\* the j-th smallest member of a set of indices
Nth(S, j) == CHOOSE i \in S : Cardinality({m \in S : m < i}) = j - 1

\* C10: in a <recipe> with readable servings, <ingredients> and <steps>,
\* servings 2.0 decodes to the integer 2 (truncation), an amount 1,5 to 1.5,
\* children of <ingredients> not named item are skipped, children of <steps>
\* not named step or blank after trimming are dropped, none of it an error, and
\* the items and steps that remain keep their order.
C10_XmlDecodeLenient ==
  pc = "decoded" /\ raw.kind = "xml" /\ raw.root.tag = "recipe"
    /\ HasChild(raw.root, "ingredients") /\ HasChild(raw.root, "steps")
    /\ ExpectedServings(FindText(raw.root, "servings")) # None
    /\ (\A i \in 1..Len(Find(raw.root, "ingredients").el.children) :
          LET c == Find(raw.root, "ingredients").el.children[i]
          IN c.tag = "item" => ExpectedAmount(c.text) # None)
  => LET ic == Find(raw.root, "ingredients").el.children
         sc == Find(raw.root, "steps").el.children
         I == {i \in 1..Len(ic) : ic[i].tag = "item"}
         S == {i \in 1..Len(sc) : sc[i].tag = "step" /\ ExpectedStep(sc[i].text) # None}
     IN /\ dec.ok
        /\ dec.val.servings = ExpectedServings(FindText(raw.root, "servings"))
        /\ Len(dec.val.ingredients.items) = Cardinality(I)
        /\ \A j \in 1..Cardinality(I) :
             dec.val.ingredients.items[j].amount = ExpectedAmount(ic[Nth(I, j)].text)
        /\ Len(dec.val.steps.items) = Cardinality(S)
        /\ \A j \in 1..Cardinality(S) :
             dec.val.steps.items[j] = ExpectedStep(sc[Nth(S, j)].text)

\* C10 witness: servings 2.0, a non-item child before an item with amount 1,5,
\* and an empty step before a real one, decoded to 2, [1.5] and one step
C10_Witness ==
  /\ pc = "decoded" /\ dec.ok
  /\ FindText(raw.root, "servings") = T(<<"2", ".", "0">>)
  /\ Len(Find(raw.root, "ingredients").el.children) = 2
  /\ Find(raw.root, "ingredients").el.children[1].tag = "note"
  /\ Find(raw.root, "ingredients").el.children[2].text = T(<<"1", ",", "5">>)
  /\ Len(Find(raw.root, "steps").el.children) = 2
  /\ Find(raw.root, "steps").el.children[1] = Leaf("step", None)
  /\ dec.val.servings = PyInt(2)
  /\ Len(dec.val.ingredients.items) = 1
  /\ dec.val.ingredients.items[1].amount = [t |-> "float", num |-> 15, k |-> 1]
  /\ dec.val.steps = PyList(<<T(<<"m">>)>>)

(************************ claims about the file store **********************)
\* every file of s is in s2 with the same content
Kept(s, s2) == \A f \in DOMAIN s : f \in DOMAIN s2 /\ s2[f] = s[f]

\* C4: when upload_file has written the upload under a generated name and the
\* decoding or the validation of it fails, then on completion no file of that
\* name is in the store and every other file is as it was.
C4_UploadRejectionCleanup ==
  resp.op = "upload" /\ resp.written /\ (~dec.ok \/ ~ret.ok) =>
    /\ resp.path \notin DOMAIN store
    /\ Kept(resp.before, store)
    /\ DOMAIN store \subseteq DOMAIN resp.before

\* C4 witness: an upload that decoded but did not validate, refused while the
\* store held an accepted file
C4_Witness ==
  /\ resp.op = "upload" /\ resp.written /\ resp.outcome = "rejected"
  /\ dec.ok /\ ~ret.ok
  /\ DOMAIN accepted # {}
  /\ resp.path \notin DOMAIN store

\* recipe-<hex identifier>.<ext of the format>
IsGeneratedName(fmt, fname) ==
  /\ Len(fname) = 3
  /\ fname[1] = "recipe-"
  /\ fname[2] \in AnyHex
  /\ fname[3] = Suffix(fmt)

\* C5: _read_file reads a file only for a name of the form
\* recipe-<hex identifier>.<ext> with the extension of the requested format;
\* any other name is answered not-found with no file read.
C5_OnlyGeneratedNamesRead ==
  resp.op = "view" /\ resp.read => IsGeneratedName(resp.fmt, resp.fname)

\* a submitted form that names an unknown format, has a blank title, servings
\* below 1, or an ingredient line that is not three parts
PostListedInvalid(post) ==
  \/ post.format \notin {"json", "xml"}
  \/ \A i \in 1..Len(post.title) : post.title[i] = " "
  \/ post.servings \in {<<>>, <<"0">>}
  \/ \E i \in 1..Len(post.ingredients) :
       LET line == post.ingredients[i]
       IN /\ \E j \in 1..Len(line) : line[j] # " "
          /\ Cardinality({j \in 1..Len(line) : line[j] = ";"}) # 2

\* C7: a save whose form fails validation, or whose assembled document fails
\* _validate_recipe_dict, leaves the store as it was; a successful save adds
\* exactly one file, new, in the directory of the chosen format, and changes
\* no other.
C7_FailedSaveWritesNothing ==
  resp.op = "save" =>
    /\ (~form.is_valid \/ ~ret.ok \/ PostListedInvalid(resp.post)) => store = resp.before
    /\ resp.outcome = "saved" =>
         /\ resp.path \notin DOMAIN resp.before
         /\ DOMAIN store = DOMAIN resp.before \cup {resp.path}
         /\ resp.path.dir = resp.post.format
         /\ Kept(resp.before, store)

\* C7 witness: a form with a malformed ingredient line, refused while the
\* store held a file saved before
C7_Witness ==
  /\ resp.op = "save" /\ resp.outcome = "form errors"
  /\ PostListedInvalid(resp.post) /\ resp.post.format = "json"
  /\ \E f \in DOMAIN accepted : f.dir = "xml"
  /\ store = resp.before

\* C8: no request removes or changes a file that is in the store when it
\* starts, and every file reported as saved or as uploaded and valid stays in
\* the store with the content it was accepted with.
C8_AcceptedFilesPersist ==
  [][Kept(store, store') /\ Kept(accepted', store')]_vars

\* C8 witness: an accepted file still in place after a later upload was
\* written and deleted again
C8_Witness ==
  /\ resp.op = "upload" /\ resp.outcome = "rejected"
  /\ DOMAIN accepted # {}
  /\ DOMAIN resp.before # {}
  /\ Kept(accepted, store)

(************************* claims about view_file **************************)
\* the file view_file was asked for exists under a name _read_file accepts
ViewedFileExists ==
  /\ resp.fmt \in {"json", "xml"}
  /\ NameAllowed(resp.fmt, resp.fname)
  /\ Path(_data_dir(resp.fmt), resp.fname) \in DOMAIN store

\* C11: view_file on an existing file with an accepted name answers 200
\* whatever the file holds: when decoding or validation fails the answer is the
\* raw content as plain text; a not-found answer comes only from an unknown
\* format tag, a rejected name or a missing file.
C11_ViewNeverFailsOnContent ==
  resp.op = "view" =>
    /\ ViewedFileExists =>
          /\ resp.status = 200
          /\ raw = store[Path(_data_dir(resp.fmt), resp.fname)]
          /\ (~dec.ok \/ ~ret.ok) => resp.body = "pre"
    /\ resp.status \in {200, 404}
    /\ resp.status = 404 => ~ViewedFileExists
====
